---- MODULE Spec2Model ----
(***************************************************************************)
(* Model of scripts/generate-issues.py: the roadmap parser, the issue body *)
(* formatter and the main run (argument check, tool check, confirmation,   *)
(* per-task preview or submission, summary).                               *)
(*                                                                         *)
(* Text is modelled at two granularities.  A document is a sequence of     *)
(* lines, each terminated by a newline; a line is a record naming the      *)
(* pattern of the script it can match (its kind) and carrying its captured *)
(* parts.  Strings the script converts (strip, lower, split, substring     *)
(* test) are sequences of one-character strings; strings it only copies    *)
(* are TLA+ strings.                                                       *)
(***************************************************************************)
EXTENDS Integers, Sequences, FiniteSets, TLC

VARIABLES pc, args, fileExists, content, tasks, idx, calls, stdout, stderr,
          answers, exit, body

vars == <<pc, args, fileExists, content, tasks, idx, calls, stdout, stderr,
          answers, exit, body>>

(* Longest document, in lines, of the parser specification. *)
MaxLines == 5
(* Most task blocks in a document of the run specification. *)
MaxTasks == 2
(* Longest list field of a Task given to the formatter specification. *)
MaxList == 1

-----------------------------------------------------------------------------
(* Character-sequence strings and the str methods the script applies.      *)

Min(S) == CHOOSE x \in S : \A y \in S : x <= y

SeqsUpTo(S, n) == UNION {[1..m -> S] : m \in 0..n}

RECURSIVE LStrip(_, _)
LStrip(s, cs) ==
    IF s # <<>> /\ Head(s) \in cs THEN LStrip(Tail(s), cs) ELSE s

RECURSIVE RStrip(_, _)
RStrip(s, cs) ==
    IF s # <<>> /\ s[Len(s)] \in cs THEN RStrip(SubSeq(s, 1, Len(s) - 1), cs) ELSE s

(* str.strip(chars) *)
StripChars(s, cs) == RStrip(LStrip(s, cs), cs)

(* str.strip() *)
Strip(s) == StripChars(s, {" "})

LowerChar(c) ==
    CASE c = "Y" -> "y"
      [] c = "E" -> "e"
      [] c = "S" -> "s"
      [] c = "N" -> "n"
      [] c = "O" -> "o"
      [] OTHER -> c

(* str.lower() *)
Lower(s) == [n \in 1..Len(s) |-> LowerChar(s[n])]

(* the test "sub in s" *)
Contains(sub, s) ==
    \E n \in 0..(Len(s) - Len(sub)) : SubSeq(s, n + 1, n + Len(sub)) = sub

TaskPrefix == <<"T", "A", "S", "K", "-">>

TigerStyleLabel == <<"t", "i", "g", "e", "r", "-", "s", "t", "y", "l", "e">>

NoneText == <<"N", "o", "n", "e">>

(* the backtick character *)
Backtick == "BACKTICK"

-----------------------------------------------------------------------------
(* Lines of a roadmap document.                                            *)

Ln(k, id, text, n, items) == [k |-> k, id |-> id, text |-> text, n |-> n, items |-> items]

(* "### TASK-<digits>: <title>" *)
Heading(digits, title) == Ln("heading", TaskPrefix \o digits, title, 0, <<>>)
(* a line that starts with "### TASK-" and is no well-formed heading *)
TaskMark == Ln("taskmark", <<>>, "", 0, <<>>)
Blank == Ln("blank", <<>>, "", 0, <<>>)
(* "**Goal:** <text>" *)
Goal(text) == Ln("goal", <<>>, text, 0, <<>>)
(* "**Description:** <text>" *)
Desc(text) == Ln("desc", <<>>, text, 0, <<>>)
(* "**Acceptance Criteria:**" and "**Test-First Requirements:**" *)
AcLabel == Ln("aclabel", <<>>, "", 0, <<>>)
TfLabel == Ln("tflabel", <<>>, "", 0, <<>>)
(* "- [ ] <chars>" or "- [x] <chars>"; items[1] is what follows the sixth character *)
Check(chars) == Ln("check", <<>>, "", 0, <<chars>>)
(* "**Dependencies:** <seg>,<seg>,..." ; items are the comma-separated segments *)
Deps(segs) == Ln("deps", <<>>, "", 0, segs)
(* "**Labels:** <seg>,<seg>,..." *)
Labels(segs) == Ln("labels", <<>>, "", 0, segs)
(* "**Estimated Effort:** <n> hours" *)
Effort(n) == Ln("effort", <<>>, "", n, <<>>)
(* "**Files:**" and a fence line of three backticks *)
FilesLabel == Ln("fileslabel", <<>>, "", 0, <<>>)
Fence == Ln("fence", <<>>, "", 0, <<>>)
(* any other non-empty line; items[1] is its text *)
Text(chars) == Ln("text", <<>>, "", 0, <<chars>>)

(* a line on which the lookahead "### TASK-" matches *)
IsTaskMark(l) == l.k \in {"heading", "taskmark"}

-----------------------------------------------------------------------------
(* parse_roadmap                                                           *)

(* re.finditer(task_pattern, content, re.DOTALL), searching from line pos. *)
(* A match starts at the first heading line at or after pos; its title     *)
(* (.+? under DOTALL) runs to the first "\n\n", that is to the end of the  *)
(* first line that a blank line follows; its body runs to the next line    *)
(* that starts with "### TASK-" or to the end of the document.  The next   *)
(* search starts where the body ended.                                     *)
RECURSIVE Matches(_, _)
Matches(doc, pos) ==
    LET hs == {h \in pos..Len(doc) : doc[h].k = "heading"}
    IN  IF hs = {} THEN <<>>
        ELSE LET h  == Min(hs)
                 bl == {j \in h..(Len(doc) - 1) : doc[j + 1].k = "blank"}
             IN  IF bl = {} THEN <<>>
                 ELSE LET j    == Min(bl)
                          ends == {e \in (j + 2)..Len(doc) : IsTaskMark(doc[e])}
                          e    == IF ends = {} THEN Len(doc) + 1 ELSE Min(ends)
                      IN  <<[start |-> h, titleEnd |-> j, bodyStart |-> j + 2,
                             bodyEnd |-> e - 1]>> \o Matches(doc, e)

(* re.search of a one-line pattern: the first line of kind k, 0 if none *)
FirstOfKind(lines, k) ==
    LET S == {n \in 1..Len(lines) : lines[n].k = k}
    IN  IF S = {} THEN 0 ELSE Min(S)

(* phase_match: the first Goal marker of content[:match.start()] *)
PhaseOf(doc, m) ==
    LET g == FirstOfKind(SubSeq(doc, 1, m.start - 1), "goal")
    IN  IF g = 0 THEN "Unknown" ELSE doc[g].text

DescriptionOf(b) ==
    LET d == FirstOfKind(b, "desc") IN IF d = 0 THEN "" ELSE b[d].text

(* a label line followed by a run of checkbox lines; each line.strip()[6:].strip() *)
CheckList(b, label) ==
    LET S == {p \in 1..(Len(b) - 1) : b[p].k = label /\ b[p + 1].k = "check"}
    IN  IF S = {} THEN <<>>
        ELSE LET p    == Min(S)
                 stop == {q \in (p + 1)..Len(b) : b[q].k # "check"}
                 last == IF stop = {} THEN Len(b) ELSE Min(stop) - 1
             IN  [n \in 1..(last - p) |-> Strip(b[p + n].items[1])]

DependenciesOf(b) ==
    LET d == FirstOfKind(b, "deps")
    IN  IF d = 0 \/ b[d].items = <<NoneText>> THEN <<>>
        ELSE [n \in 1..Len(b[d].items) |-> Strip(b[d].items[n])]

LabelsOf(b) ==
    LET l == FirstOfKind(b, "labels")
    IN  IF l = 0 THEN <<>>
        ELSE [n \in 1..Len(b[l].items) |-> StripChars(Strip(b[l].items[n]), {Backtick})]

EffortOf(b) ==
    LET e == FirstOfKind(b, "effort") IN IF e = 0 THEN 0 ELSE b[e].n

(* the text of a line inside a fenced block *)
LineChars(l) == IF l.k = "fence" THEN <<Backtick, Backtick, Backtick>> ELSE l.items[1]

(* "**Files:**", a fence line, one or more non-empty lines taken lazily, a fence *)
FilesOf(b) ==
    LET closes(p) == {q \in (p + 3)..Len(b) : b[q].k = "fence"}
        S == {p \in 1..(Len(b) - 3) :
                /\ b[p].k = "fileslabel"
                /\ b[p + 1].k = "fence"
                /\ closes(p) # {}
                /\ \A n \in (p + 2)..(Min(closes(p)) - 1) : b[n].k # "blank"}
    IN  IF S = {} THEN <<>>
        ELSE LET p == Min(S)
                 q == Min(closes(p))
             IN  [n \in 1..(q - p - 2) |-> Strip(LineChars(b[p + 1 + n]))]

(* the title group: the rest of the heading line and every line up to the blank one *)
TitleOf(doc, m) ==
    <<Ln("title", <<>>, doc[m.start].text, 0, <<>>)>> \o SubSeq(doc, m.start + 1, m.titleEnd)

TaskOf(doc, m) ==
    LET b == SubSeq(doc, m.bodyStart, m.bodyEnd)
    IN  [id                  |-> doc[m.start].id,
         phase               |-> PhaseOf(doc, m),
         title               |-> TitleOf(doc, m),
         description         |-> DescriptionOf(b),
         acceptance_criteria |-> CheckList(b, "aclabel"),
         dependencies        |-> DependenciesOf(b),
         labels              |-> LabelsOf(b),
         effort_hours        |-> EffortOf(b),
         files               |-> FilesOf(b),
         test_first          |-> CheckList(b, "tflabel")]

parse_roadmap(doc) ==
    LET ms == Matches(doc, 1) IN [n \in 1..Len(ms) |-> TaskOf(doc, ms[n])]

-----------------------------------------------------------------------------
(* The parser applied to every document of at most MaxLines lines.         *)

ParseLines ==
    {Heading(<<"1">>, "A"), Heading(<<"2">>, "B"), Blank, Goal("P0"), Goal("P1"),
     Desc("d"), TaskMark}

Documents == SeqsUpTo(ParseLines, MaxLines)

NoArgs == [dry_run |-> FALSE, create |-> FALSE, filter |-> <<>>]

InitParse ==
    /\ pc = "parse"
    /\ content \in Documents
    /\ args = NoArgs
    /\ fileExists = TRUE
    /\ tasks = <<>>
    /\ idx = 1
    /\ calls = <<>>
    /\ stdout = <<>>
    /\ stderr = <<>>
    /\ answers = <<>>
    /\ exit = -1
    /\ body = <<>>

ParseDocument ==
    /\ pc = "parse"
    /\ tasks' = parse_roadmap(content)
    /\ pc' = "parsed"
    /\ UNCHANGED <<args, fileExists, content, idx, calls, stdout, stderr, answers,
                   exit, body>>

NextParse == ParseDocument

ParseSpec == InitParse /\ [][NextParse]_vars

-----------------------------------------------------------------------------
(* format_issue_body                                                       *)

(* One line of a body: the literal text pre, then an interpolated value    *)
(* (a copied string str, a character string chars, or a number num, -1     *)
(* when the line interpolates no number), then the literal text suf.       *)
BodyLine(pre, str, chars, num, suf) ==
    [pre |-> pre, str |-> str, chars |-> chars, num |-> num, suf |-> suf]

Lit(text) == BodyLine(text, "", <<>>, -1, "")
Empty == Lit("")
FenceLine == BodyLine("", "", <<Backtick, Backtick, Backtick>>, -1, "")

(* the lines a for loop writes, one per element of list *)
Each(pre, list) == [n \in 1..Len(list) |-> BodyLine(pre, "", list[n], -1, "")]

(* TigerStyleRequirements without its last entry *)
TigerStyleRequirements_LastDropped ==
    << Lit("---"), Empty,
       Lit("**Tiger Style Requirements:**"),
       BodyLine("- [ ] ", "Minimum 2 assertions per function", <<>>, -1, ""),
       BodyLine("- [ ] ", "All loops are bounded", <<>>, -1, ""),
       BodyLine("- [ ] ", "Explicit error handling (no silent failures)", <<>>, -1, ""),
       BodyLine("- [ ] ", "Code formatted with zig fmt", <<>>, -1, ""),
       BodyLine("- [ ] ", "Pre-commit hook passes", <<>>, -1, "") >>

(* the trailing block of format_issue_body; the source writes zig fmt in *)
(* backticks                                                             *)
TigerStyleRequirements ==
    << Lit("---"), Empty,
       Lit("**Tiger Style Requirements:**"),
       BodyLine("- [ ] ", "Minimum 2 assertions per function", <<>>, -1, ""),
       BodyLine("- [ ] ", "All loops are bounded", <<>>, -1, ""),
       BodyLine("- [ ] ", "Explicit error handling (no silent failures)", <<>>, -1, ""),
       BodyLine("- [ ] ", "Code formatted with zig fmt", <<>>, -1, ""),
       BodyLine("- [ ] ", "Pre-commit hook passes", <<>>, -1, ""),
       BodyLine("- [ ] ", "All tests pass", <<>>, -1, "") >>

(* format_issue_body with the Dependencies section written unconditionally, *)
(* as the Acceptance Criteria section is                                    *)
format_issue_body_AlwaysDependencies(task) ==
    << Lit("## Description"), Empty, BodyLine("", task.description, <<>>, -1, ""), Empty,
       Lit("## Phase"), Empty, BodyLine("", task.phase, <<>>, -1, ""), Empty >>
    \o (IF task.test_first # <<>>
        THEN << Lit("## Test-First Requirements"), Empty,
                Lit("> (warning sign) **Write tests BEFORE implementation**"), Empty >>
             \o Each("- [ ] ", task.test_first) \o << Empty >>
        ELSE <<>>)
    \o << Lit("## Acceptance Criteria"), Empty >>
    \o Each("- [ ] ", task.acceptance_criteria) \o << Empty >>
    \o << Lit("## Dependencies"), Empty >>
    \o Each("- ", task.dependencies) \o << Empty >>
    \o (IF task.files # <<>>
        THEN << Lit("## Files to Create/Modify"), Empty, FenceLine >>
             \o Each("", task.files) \o << FenceLine, Empty >>
        ELSE <<>>)
    \o << Lit("## Estimated Effort"), Empty,
          BodyLine("", "", <<>>, task.effort_hours, " hours"), Empty >>
    \o TigerStyleRequirements

format_issue_body(task) ==
    << Lit("## Description"), Empty, BodyLine("", task.description, <<>>, -1, ""), Empty,
       Lit("## Phase"), Empty, BodyLine("", task.phase, <<>>, -1, ""), Empty >>
    \o (IF task.test_first # <<>>
        THEN << Lit("## Test-First Requirements"), Empty,
                Lit("> (warning sign) **Write tests BEFORE implementation**"), Empty >>
             \o Each("- [ ] ", task.test_first) \o << Empty >>
        ELSE <<>>)
    \o << Lit("## Acceptance Criteria"), Empty >>
    \o Each("- [ ] ", task.acceptance_criteria) \o << Empty >>
    \o (IF task.dependencies # <<>>
        THEN << Lit("## Dependencies"), Empty >>
             \o Each("- ", task.dependencies) \o << Empty >>
        ELSE <<>>)
    \o (IF task.files # <<>>
        THEN << Lit("## Files to Create/Modify"), Empty, FenceLine >>
             \o Each("", task.files) \o << FenceLine, Empty >>
        ELSE <<>>)
    \o << Lit("## Estimated Effort"), Empty,
          BodyLine("", "", <<>>, task.effort_hours, " hours"), Empty >>
    \o TigerStyleRequirements

-----------------------------------------------------------------------------
(* The formatter applied to Tasks with every combination of empty and      *)
(* non-empty list fields.                                                  *)

TaskInputs ==
    [id                  : {TaskPrefix \o <<"1">>},
     phase               : {"Unknown", "P0"},
     title               : {<<Ln("title", <<>>, "A", 0, <<>>)>>},
     description         : {"", "d"},
     acceptance_criteria : SeqsUpTo({<<"c">>}, MaxList),
     dependencies        : SeqsUpTo({TaskPrefix \o <<"0">>}, MaxList),
     labels              : {<<>>},
     effort_hours        : {0, 4},
     files               : SeqsUpTo({<<"f">>}, MaxList),
     test_first          : SeqsUpTo({<<"t">>}, MaxList)]

InitFormat ==
    /\ pc = "format"
    /\ tasks \in {<<t>> : t \in TaskInputs}
    /\ content = <<>>
    /\ args = NoArgs
    /\ fileExists = TRUE
    /\ idx = 1
    /\ calls = <<>>
    /\ stdout = <<>>
    /\ stderr = <<>>
    /\ answers = <<>>
    /\ exit = -1
    /\ body = <<>>

FormatTask ==
    /\ pc = "format"
    /\ body' = format_issue_body(tasks[1])
    /\ pc' = "formatted"
    /\ UNCHANGED <<args, fileExists, content, tasks, idx, calls, stdout, stderr,
                   answers, exit>>

NextFormat == FormatTask

FormatSpec == InitFormat /\ [][NextFormat]_vars

-----------------------------------------------------------------------------
(* create_github_issue and main                                            *)

Yes == <<"y", "e", "s">>

(* the title argument: f"{task.id}: {task.title}" *)
IssueTitle(task) == [id |-> task.id, title |-> task.title]

IssueLabels(task) == task.labels \o <<TigerStyleLabel>>

(* the four header prints and the body print of a preview *)
PreviewOutput(task) ==
    << [t |-> "separator"],
       [t |-> "issue", title |-> IssueTitle(task)],
       [t |-> "labels", labels |-> IssueLabels(task)],
       [t |-> "separator"],
       [t |-> "body", body |-> format_issue_body(task)] >>

(* cmd of create_github_issue, with the outcome of running it *)
CreateCall(task, rc) ==
    [cmd |-> "create", title |-> IssueTitle(task), body |-> format_issue_body(task),
     labels |-> IssueLabels(task), rc |-> rc]

VersionCall(rc) ==
    [cmd |-> "version", title |-> <<>>, body |-> <<>>, labels |-> <<>>, rc |-> rc]

(* Declined with every answer that begins with y or Y taken as consent *)
Declined_FirstLetterOnly(response) ==
    response = <<>> \/ LowerChar(response[1]) # "y"

(* response.lower() != "yes" *)
Declined(response) == Lower(response) # Yes

(* tasks = [t for t in tasks if args.filter in t.id], when args.filter is truthy *)
FilterTasks(ts, filter) ==
    IF filter = <<>> THEN ts
    ELSE SelectSeq(ts, LAMBDA t : Contains(filter, t.id))

RECURSIVE TotalHours(_)
TotalHours(ts) == IF ts = <<>> THEN 0 ELSE Head(ts).effort_hours + TotalHours(Tail(ts))

(* args = parser.parse_args(); the usage check *)
ParseArgs ==
    /\ pc = "start"
    /\ IF ~args.dry_run /\ ~args.create
       THEN /\ stderr' = Append(stderr, [t |-> "usage"])
            /\ exit' = 2
            /\ pc' = "done"
       ELSE /\ pc' = "read"
            /\ UNCHANGED <<stderr, exit>>
    /\ UNCHANGED <<args, fileExists, content, tasks, idx, calls, stdout, answers, body>>

(* tasks = parse_roadmap(args.roadmap), the filter, print("Found ...").  *)
(* open() of a missing file raises, which nothing catches.               *)
ReadRoadmap ==
    /\ pc = "read"
    /\ IF ~fileExists
       THEN /\ stderr' = Append(stderr, [t |-> "traceback"])
            /\ exit' = 1
            /\ pc' = "done"
            /\ UNCHANGED <<tasks, stdout>>
       ELSE /\ tasks' = FilterTasks(parse_roadmap(content), args.filter)
            /\ stdout' = Append(stdout, [t |-> "found", n |-> Len(tasks')])
            /\ pc' = IF args.create THEN "check" ELSE "loop"
            /\ UNCHANGED <<stderr, exit>>
    /\ UNCHANGED <<args, fileExists, content, idx, calls, answers, body>>

(* CheckGh with the failure reported but not fatal: the sys.exit(1) is lost *)
CheckGh_ContinuesOnFailure ==
    /\ pc = "check"
    /\ \E rc \in {"ok", "nonzero", "missing"} :
         /\ calls' = Append(calls, VersionCall(rc))
         /\ stderr' = IF rc # "ok" THEN Append(stderr, [t |-> "gh not found"]) ELSE stderr
         /\ pc' = "confirm"
    /\ UNCHANGED <<args, fileExists, content, tasks, idx, stdout, answers, exit, body>>

(* subprocess.run(["gh", "--version"], check=True, capture_output=True):   *)
(* it returns, or raises CalledProcessError or FileNotFoundError           *)
CheckGh ==
    /\ pc = "check"
    /\ \E rc \in {"ok", "nonzero", "missing"} :
         /\ calls' = Append(calls, VersionCall(rc))
         /\ IF rc # "ok"
            THEN /\ stderr' = Append(stderr, [t |-> "gh not found"])
                 /\ exit' = 1
                 /\ pc' = "done"
            ELSE /\ pc' = "confirm"
                 /\ UNCHANGED <<stderr, exit>>
    /\ UNCHANGED <<args, fileExists, content, tasks, idx, stdout, answers, body>>

Responses ==
    { Yes, <<"Y", "E", "S">>, <<"Y", "e", "s">>, <<"y">>, <<"n", "o">>, <<>>,
      <<"y", "e", "s", " ">>, <<"N", "O">> }

(* response = input(...); anything but "yes" prints "Aborted" and returns *)
Confirm ==
    /\ pc = "confirm"
    /\ \E response \in Responses :
         /\ answers' = Append(answers, response)
         /\ IF Declined(response)
            THEN /\ stdout' = Append(stdout, [t |-> "aborted"])
                 /\ exit' = 0
                 /\ pc' = "done"
            ELSE /\ pc' = "loop"
                 /\ UNCHANGED <<stdout, exit>>
    /\ UNCHANGED <<args, fileExists, content, tasks, idx, calls, stderr, body>>

(* CreateGithubIssue with the CalledProcessError left uncaught: the first *)
(* failed submission ends the run                                        *)
CreateGithubIssue_StopsOnFailure ==
    /\ pc = "loop"
    /\ idx <= Len(tasks)
    /\ LET task == tasks[idx]
       IN  IF args.dry_run
           THEN /\ stdout' = stdout \o PreviewOutput(task)
                /\ UNCHANGED <<calls, stderr, pc, exit>>
           ELSE \E rc \in {"ok", "nonzero"} :
                  /\ calls' = Append(calls, CreateCall(task, rc))
                  /\ IF rc = "ok"
                     THEN /\ stdout' = Append(stdout, [t |-> "created", title |-> IssueTitle(task)])
                          /\ UNCHANGED <<stderr, pc, exit>>
                     ELSE /\ stderr' = Append(stderr, [t |-> "traceback"])
                          /\ exit' = 1
                          /\ pc' = "done"
                          /\ UNCHANGED stdout
    /\ idx' = idx + 1
    /\ UNCHANGED <<args, fileExists, content, tasks, answers, body>>

(* one iteration of the loop: create_github_issue(task, dry_run=args.dry_run) *)
(* The gh command passed the version check of this run, so running it   *)
(* returns or raises CalledProcessError.                                 *)
CreateGithubIssue ==
    /\ pc = "loop"
    /\ idx <= Len(tasks)
    /\ LET task == tasks[idx]
       IN  IF args.dry_run
           THEN /\ stdout' = stdout \o PreviewOutput(task)
                /\ UNCHANGED <<calls, stderr>>
           ELSE \E rc \in {"ok", "nonzero"} :
                  /\ calls' = Append(calls, CreateCall(task, rc))
                  /\ IF rc = "ok"
                     THEN /\ stdout' = Append(stdout, [t |-> "created", title |-> IssueTitle(task)])
                          /\ UNCHANGED stderr
                     ELSE /\ stderr' = Append(stderr, [t |-> "failed", title |-> IssueTitle(task)])
                          /\ UNCHANGED stdout
    /\ idx' = idx + 1
    /\ UNCHANGED <<pc, args, fileExists, content, tasks, answers, exit, body>>

(* after the loop: the separator and the Total line; main returns *)
Summary ==
    /\ pc = "loop"
    /\ idx > Len(tasks)
    /\ stdout' = stdout \o << [t |-> "separator"],
                              [t |-> "total", n |-> Len(tasks), hours |-> TotalHours(tasks)] >>
    /\ exit' = 0
    /\ pc' = "done"
    /\ UNCHANGED <<args, fileExists, content, tasks, idx, calls, stderr, answers, body>>

-----------------------------------------------------------------------------
(* Runs of main over roadmaps of at most MaxTasks well-formed task blocks. *)

Id001 == TaskPrefix \o <<"0", "0", "1">>
Id101 == TaskPrefix \o <<"1", "0", "1">>

TaskBlocks ==
    { << Heading(<<"0", "0", "1">>, "Setup"), Blank,
         Desc("d1"),
         Labels(<< <<Backtick, "c", "o", "r", "e", Backtick>>, <<" ", "P", "0">> >>),
         Effort(4),
         Deps(<<NoneText>>), Blank,
         AcLabel, Check(<<"c", "1">>), Check(<<"c", "2", " ">>), Blank >>,
      << Heading(<<"1", "0", "1">>, "Build"), Blank,
         Effort(6),
         Deps(<< Id001, <<" ">> \o Id101 >>), Blank,
         TfLabel, Check(<<"t", "1">>), Blank,
         FilesLabel, Fence, Text(<<" ", "a", ".", "z">>), Fence, Blank >> }

RECURSIVE Flatten(_)
Flatten(ss) == IF ss = <<>> THEN <<>> ELSE Head(ss) \o Flatten(Tail(ss))

RunDocuments ==
    {pre \o Flatten(bs) : pre \in {<<>>, <<Goal("P0"), Blank>>},
                          bs \in SeqsUpTo(TaskBlocks, MaxTasks)}

Filters == {<<>>, TaskPrefix \o <<"0">>, <<"9">>}

Init ==
    /\ pc = "start"
    /\ args \in [dry_run : BOOLEAN, create : BOOLEAN, filter : Filters]
    /\ fileExists \in BOOLEAN
    /\ content \in RunDocuments
    /\ tasks = <<>>
    /\ idx = 1
    /\ calls = <<>>
    /\ stdout = <<>>
    /\ stderr = <<>>
    /\ answers = <<>>
    /\ exit = -1
    /\ body = <<>>

Next ==
    \/ ParseArgs
    \/ ReadRoadmap
    \/ CheckGh
    \/ Confirm
    \/ CreateGithubIssue
    \/ Summary

Spec == Init /\ [][Next]_vars

-----------------------------------------------------------------------------
(* Properties of the run (Spec).                                           *)

Max(S) == CHOOSE x \in S : \A y \in S : x >= y

VersionCalls == SelectSeq(calls, LAMBDA c : c.cmd = "version")
CreateCalls == SelectSeq(calls, LAMBDA c : c.cmd = "create")
CheckFailed == VersionCalls # <<>> /\ VersionCalls[1].rc # "ok"
Printed(kind) == SelectSeq(stdout, LAMBDA o : o.t = kind)
Reported(kind) == SelectSeq(stderr, LAMBDA o : o.t = kind)

(* case-insensitively equal to "yes" *)
IsYes(s) ==
    /\ Len(s) = 3
    /\ s[1] \in {"y", "Y"}
    /\ s[2] \in {"e", "E"}
    /\ s[3] \in {"s", "S"}

(* C1: in a run with the submit flag the version check is the first        *)
(* external command, is never made twice, and has been made (and passed)   *)
(* whenever the prompt has been read, a create-issue call has been made or *)
(* the run is past the check; a run that got as far as reading the         *)
(* document ends with exactly one check; and when the check failed the run *)
(* has ended with exit status 1, the prompt was never read, no create-issue*)
(* call was made and no task was processed.                                *)
C1_VersionCheckOnceAndFirst ==
    args.create =>
      /\ Len(VersionCalls) <= 1
      /\ (calls # <<>> => calls[1].cmd = "version")
      /\ (answers # <<>> \/ CreateCalls # <<>> \/ pc \in {"confirm", "loop"})
            => (Len(VersionCalls) = 1 /\ ~CheckFailed)
      /\ (pc = "done" /\ fileExists) => Len(VersionCalls) = 1
      /\ CheckFailed =>
            /\ pc = "done"
            /\ exit = 1
            /\ answers = <<>>
            /\ CreateCalls = <<>>
            /\ idx = 1
            /\ Printed("issue") = <<>>
            /\ Len(Reported("gh not found")) = 1

C1_CheckFailedRun ==
    /\ args.create
    /\ pc = "done"
    /\ CheckFailed
    /\ Len(tasks) > 0

(* C2: in a run with the submit flag whose tool check passed, an answer    *)
(* that is not case-insensitively "yes" ends the run at once with no       *)
(* create-issue call, the notice Aborted as the last thing printed, and    *)
(* exit status 0.                                                          *)
C2_DeclineAborts ==
    (args.create /\ ~CheckFailed /\ answers # <<>> /\ ~IsYes(answers[1])) =>
      /\ pc = "done"
      /\ CreateCalls = <<>>
      /\ stdout[Len(stdout)].t = "aborted"
      /\ Len(Printed("aborted")) = 1
      /\ exit = 0

C2_DeclinedWithY ==
    /\ args.create
    /\ pc = "done"
    /\ answers = << <<"y">> >>
    /\ Len(tasks) > 0

(* a run in submission mode (submit flag, no preview flag) that was confirmed *)
ConfirmedSubmission ==
    /\ args.create
    /\ ~args.dry_run
    /\ answers # <<>>
    /\ IsYes(answers[1])

(* C3: in a confirmed submission run the create-issue calls made so far    *)
(* are those of the first tasks of the processed list, one each and in     *)
(* list order, whatever their outcomes; every failed call has its failure  *)
(* on the error stream; and the run ends with one call per task, the       *)
(* summary line printed last, and exit status 0.                           *)
C3_EveryTaskSubmittedOnce ==
    ConfirmedSubmission =>
      /\ Len(CreateCalls) = idx - 1
      /\ Len(CreateCalls) <= Len(tasks)
      /\ \A n \in 1..Len(CreateCalls) :
            /\ CreateCalls[n].title = IssueTitle(tasks[n])
            /\ CreateCalls[n].body = format_issue_body(tasks[n])
      /\ LET failed == SelectSeq(CreateCalls, LAMBDA c : c.rc # "ok")
         IN  /\ Len(Reported("failed")) = Len(failed)
             /\ \A n \in 1..Len(failed) : Reported("failed")[n].title = failed[n].title
      /\ pc = "done" =>
            /\ Len(CreateCalls) = Len(tasks)
            /\ stdout[Len(stdout)].t = "total"
            /\ stdout[Len(stdout)].n = Len(tasks)
            /\ exit = 0

C3_FailureThenSuccess ==
    /\ ConfirmedSubmission
    /\ pc = "done"
    /\ Len(CreateCalls) = 2
    /\ CreateCalls[1].rc = "nonzero"
    /\ CreateCalls[2].rc = "ok"

(* C4: whenever the two mode flags are not exactly one set, the run ends   *)
(* in the usage error with a non-zero exit status, before the document is  *)
(* read and before any task is processed.                                  *)
C4_ExactlyOneFlagRequired ==
    (pc # "start" /\ args.dry_run = args.create) =>
      /\ pc = "done"
      /\ exit = 2
      /\ Len(Reported("usage")) = 1
      /\ tasks = <<>>
      /\ stdout = <<>>
      /\ calls = <<>>

(* C5: in a run with the preview flag no external command is invoked, no   *)
(* confirmation is read, every processed task has its title, its labels    *)
(* with tiger-style and its body printed, and a run that read its document *)
(* ends with exit status 0.                                                *)
C5_PreviewHasNoExternalEffect ==
    args.dry_run =>
      /\ calls = <<>>
      /\ answers = <<>>
      /\ Len(Printed("issue")) = idx - 1
      /\ \A n \in 1..(idx - 1) :
            /\ Printed("issue")[n].title = IssueTitle(tasks[n])
            /\ Printed("labels")[n].labels = tasks[n].labels \o <<TigerStyleLabel>>
            /\ Printed("body")[n].body = format_issue_body(tasks[n])
      /\ (pc = "done" /\ fileExists) => exit = 0

-----------------------------------------------------------------------------
(* Properties of parse_roadmap (ParseSpec).                                *)

(* the text of the last Goal marker before line h, "Unknown" if there is none *)
NearestPrecedingGoal(doc, h) ==
    LET S == {g \in 1..(h - 1) : doc[g].k = "goal"}
    IN  IF S = {} THEN "Unknown" ELSE doc[Max(S)].text

(* C6: the phase of every returned task is the text of the nearest Goal    *)
(* marker before the heading of its block, "Unknown" when there is none.   *)
C6_PhaseIsNearestPrecedingGoal ==
    pc = "parsed" =>
      \A n \in 1..Len(tasks) :
         tasks[n].phase = NearestPrecedingGoal(content, Matches(content, 1)[n].start)

HeadingLines(doc) == SelectSeq(doc, LAMBDA l : l.k = "heading")

(* C7: the returned tasks are the task headings of the document, one task  *)
(* per heading and in document order.                                      *)
C7_OneTaskPerHeading ==
    pc = "parsed" =>
      /\ Len(tasks) = Len(HeadingLines(content))
      /\ \A n \in 1..Len(tasks) :
            /\ tasks[n].id = HeadingLines(content)[n].id
            /\ tasks[n].title[1].text = HeadingLines(content)[n].text

(* C9: no two tasks returned by one parse have the same id.                *)
C9_IdsUnique ==
    pc = "parsed" =>
      \A m, n \in 1..Len(tasks) : m # n => tasks[m].id # tasks[n].id

-----------------------------------------------------------------------------
(* Properties of format_issue_body (FormatSpec).                           *)

SectionTexts ==
    { "## Description", "## Phase", "## Test-First Requirements",
      "## Acceptance Criteria", "## Dependencies", "## Files to Create/Modify",
      "## Estimated Effort", "**Tiger Style Requirements:**" }

IsSectionLine(l) ==
    l.pre \in SectionTexts /\ l.str = "" /\ l.chars = <<>> /\ l.num = -1 /\ l.suf = ""

(* the section headings of a body, in the order they appear *)
Sections(b) ==
    LET hs == SelectSeq(b, IsSectionLine) IN [n \in 1..Len(hs) |-> hs[n].pre]

ExpectedSections(task) ==
    << "## Description", "## Phase" >>
    \o (IF Len(task.test_first) > 0 THEN << "## Test-First Requirements" >> ELSE <<>>)
    \o << "## Acceptance Criteria" >>
    \o (IF Len(task.dependencies) > 0 THEN << "## Dependencies" >> ELSE <<>>)
    \o (IF Len(task.files) > 0 THEN << "## Files to Create/Modify" >> ELSE <<>>)
    \o << "## Estimated Effort", "**Tiger Style Requirements:**" >>

(* C8: the body holds the Test-First, Dependencies and Files sections      *)
(* exactly when the corresponding list is non-empty, always holds the      *)
(* Description, Phase, Acceptance Criteria and Estimated Effort sections,  *)
(* and holds its sections in the fixed order, the checklist last.          *)
C8_SectionsPresentAndOrdered ==
    pc = "formatted" => Sections(body) = ExpectedSections(tasks[1])

C8_OnlyFilesOfTheOptionalSections ==
    /\ pc = "formatted"
    /\ tasks[1].acceptance_criteria = <<>>
    /\ tasks[1].dependencies = <<>>
    /\ tasks[1].test_first = <<>>
    /\ tasks[1].files # <<>>

(* the lines of a body after its last section line *)
LinesAfterLastSection(b) ==
    LET S == {n \in 1..Len(b) : IsSectionLine(b[n])}
    IN  IF S = {} THEN <<>> ELSE SubSeq(b, Max(S) + 1, Len(b))

IsUncheckedItem(l) ==
    l.pre = "- [ ] " /\ l.str # "" /\ l.chars = <<>> /\ l.num = -1 /\ l.suf = ""

ProcessRequirements ==
    << "Minimum 2 assertions per function",
       "All loops are bounded",
       "Explicit error handling (no silent failures)",
       "Code formatted with zig fmt",
       "Pre-commit hook passes",
       "All tests pass" >>

TrailingChecklist == LinesAfterLastSection(body)

(* C10 as stated: every body ends with a checklist of exactly five         *)
(* unchecked checkbox items.                                               *)
C10_FiveProcessRequirements ==
    pc = "formatted" =>
      /\ Len(TrailingChecklist) = 5
      /\ \A n \in 1..Len(TrailingChecklist) : IsUncheckedItem(TrailingChecklist[n])

(* C10 as amended: every body ends with the same checklist of exactly six  *)
(* process requirements, each an unchecked checkbox item, under the Tiger  *)
(* Style Requirements line that follows the rule line, the same text for   *)
(* every Task.                                                             *)
C10_SixProcessRequirements ==
    pc = "formatted" =>
      /\ Len(TrailingChecklist) = 6
      /\ \A n \in 1..Len(TrailingChecklist) :
            /\ IsUncheckedItem(TrailingChecklist[n])
            /\ TrailingChecklist[n].str = ProcessRequirements[n]
      /\ Len(body) >= 9
      /\ body[Len(body) - 8] = Lit("---")
      /\ body[Len(body) - 7] = Empty
      /\ body[Len(body) - 6] = Lit("**Tiger Style Requirements:**")

C10_FormattedTaskWithEveryList ==
    /\ pc = "formatted"
    /\ tasks[1].files # <<>>
    /\ tasks[1].dependencies # <<>>
    /\ tasks[1].test_first # <<>>
    /\ tasks[1].description = "d"

====
